---- MODULE Spec2Model ----
(***************************************************************************)
(* Model of the gesture pipeline of jarvis: the temporal tracker of        *)
(* GestureRecognizer.recognize (gestures/recognizer.py) and the action     *)
(* dispatcher JarvisController._handle_gesture / _move_cursor (main.py),   *)
(* driven by the camera loop JarvisController._run_gesture_loop; and of    *)
(* the speech queue of TextToSpeech.speak_async (voice/speaker.py).        *)
(*                                                                         *)
(* Time is counted in ticks of 0.05 s, the largest unit in which every     *)
(* duration of the code is a whole number: GESTURE_HOLD_TIME 0.05 s = 1,   *)
(* scroll cooldown 0.2 s = 4, click cooldown 0.5 s = 10, voice cooldown    *)
(* 2.0 s = 40.  Calls of pyautogui are recorded as the device actions the  *)
(* loop iteration emitted, in call order.                                  *)
(***************************************************************************)
EXTENDS Integers, Sequences, FiniteSets

VARIABLES
    clock,               \* the latest value time.time() returned
    last_gesture,        \* GestureRecognizer._last_gesture
    gesture_start_time,  \* GestureRecognizer._gesture_start_time
    gesture_cooldown,    \* JarvisController._gesture_cooldown
    dragging,            \* JarvisController._dragging
    volume_mode,         \* JarvisController._volume_mode
    volume_start_y,      \* JarvisController._volume_start_y
    current_volume,      \* JarvisController._current_volume
    selection_mode,      \* JarvisController._selection_mode
    selection_start,     \* JarvisController._selection_start
    last_cursor_pos,     \* JarvisController._last_cursor_pos
    screen,              \* <<screen_width, screen_height>> of pyautogui.size()
    frame,               \* what the latest loop iteration saw (history)
    actions,             \* device actions of the latest loop iteration (history)
    last_click,          \* time of the latest PointerClick, -1 before the first (history)
    click_gap,           \* ticks between the latest two PointerClicks, -1 before the second (history)
    frames,              \* iterations of the camera loop so far (history)
    streak_fired,        \* clicks and voice signals of the current gesture streak, counted to 2 (history)
    observed,            \* what _classify_gesture was last given: extended fingers, thumb-index distance, thumb and wrist height
    classified,          \* what _classify_gesture last returned
    hand,                \* the HandLandmarks the recognizer is given, as the measurements it reads
    position,            \* GestureState.position of the latest recognize, in thousandths
    info,                \* what _draw_gesture_info last looked up in GESTURE_ACTIONS
    queue,               \* TextToSpeech._queue: the texts waiting, oldest first
    running,             \* TextToSpeech._running
    thread,              \* where the worker thread of TextToSpeech._thread stands
    text,                \* the text the worker took from the queue, 0 when none
    caller,              \* where the thread calling speak_async stands
    calls,               \* calls of speak_async so far; the n-th call passes text n (history)
    spoken               \* the texts given to speak, in order (history)

vars == <<clock, last_gesture, gesture_start_time, gesture_cooldown, dragging,
          volume_mode, volume_start_y, current_volume, selection_mode,
          selection_start, last_cursor_pos, screen, frame, actions,
          last_click, click_gap, frames, streak_fired, observed, classified,
          hand, position, info, queue, running, thread, text, caller, calls,
          spoken>>

\* the text-to-speech queue and its two threads
speech_vars == <<queue, running, thread, text, caller, calls, spoken>>

\* the gesture pipeline
pipeline_vars ==
    <<clock, last_gesture, gesture_start_time, gesture_cooldown, dragging,
      volume_mode, volume_start_y, current_volume, selection_mode,
      selection_start, last_cursor_pos, screen, frame, actions,
      last_click, click_gap, frames, streak_fired, observed, classified,
      hand, position, info>>

-----------------------------------------------------------------------------
(* Bounds of the model *)

\* the clock is read up to this tick
MaxTime == 60
\* iterations of the camera loop in one run
MaxFrames == 4
\* iterations of the camera loop in one run of the volume control
MaxVolumeFrames == 6
\* calls of speak_async in one run
MaxTexts == 5

\* ticks that may pass between two camera frames with a hand
DtSet == {0, 1, 10, 40}

\* ticks between the recognizer's and the handler's reading of the clock
LagSet == {0}

\* palm centres (pixels of the 640x480 camera frame) the hand is seen at:
\* the centre of the frame, and while pinching also 30 pixels above it
PalmSet(gesture) ==
    IF gesture = "PINCH" THEN {<<320, 240>>, <<320, 210>>} ELSE {<<320, 240>>}

\* palm centres of the runs that exercise the volume control: the centre of
\* the frame, 1, 6 and 30 pixels above it, and far above and far below it
VolumePalmSet ==
    {<<320, 240>>, <<320, 239>>, <<320, 234>>, <<320, 210>>, <<320, 75>>, <<320, 405>>}

\* hands the classifier is given: every set of extended fingers, the
\* thumb-index distance (hundredths of the hand size) below, just below, at
\* and above PINCH_THRESHOLD, and the thumb tip above, level with and below
\* the wrist, at and past the 15 pixel margin
Fingers == {"thumb", "index", "middle", "ring", "pinky"}
OtherFingers == {"index", "middle", "ring", "pinky"}
DistSet == {0, 21, 22, 50}
WristY == 300
ThumbYSet == {200, 284, 285, 300, 315, 316, 400}

\* palm centre and bounding box <<x, y, w, h>> of the hand, in pixels: a hand
\* in the middle of the frame, one at its top left corner, one whose palm
\* lies past the estimated frame size, and one partly off the left edge
AnchorSet ==
    {[palm |-> <<320, 240>>, bbox |-> <<260, 160, 120, 160>>],
     [palm |-> <<0, 0>>, bbox |-> <<0, 0, 80, 100>>],
     [palm |-> <<600, 450>>, bbox |-> <<300, 200, 100, 100>>],
     [palm |-> <<-60, 240>>, bbox |-> <<-100, 160, 100, 160>>]}

\* the hands the recognizer is given.  Of the 21 landmarks the record holds
\* what the recognizer reads: the handedness, the x of thumb tip and thumb
\* base (landmarks 4 and 2), for each other finger the distance of its tip
\* and of its middle joint from the wrist, the distance between thumb tip and
\* index tip, the hand size (wrist to landmark 9; 0 and 1 pixel are the
\* degenerate hand and the smallest one that is not), the y of thumb tip and
\* wrist, and palm centre and bounding box
HandSet ==
    [handedness : {"Right", "Left"},
     thumb_tip_x : {90, 100, 110}, thumb_mcp_x : {100},
     tip_dist : [OtherFingers -> {40, 60}], pip_dist : {50},
     thumb_index_px : DistSet, hand_size : {0, 1, 100},
     thumb_y : ThumbYSet, wrist_y : {WristY},
     anchor : AnchorSet]

\* palm centres of the runs that exercise the cursor: the centre of the
\* frame, one pixel below and above it, the corners of the active zone, and a
\* palm centre left of and below the frame (landmarks may leave the image)
CursorPalmSet ==
    {<<320, 240>>, <<320, 241>>, <<320, 239>>, <<128, 96>>, <<512, 384>>,
     <<-50, 500>>}

\* screens pyautogui.size() may report
ScreenSet == {<<1920, 1080>>}

-----------------------------------------------------------------------------
(* Program constants *)

FRAME_WIDTH == 640
FRAME_HEIGHT == 480
SCREEN_MARGIN == 30
GESTURE_HOLD_TIME == 1
ClickCooldown == 10
ScrollCooldown == 4
VoiceCooldown == 40
ScrollAmount == 3
VolumeSensitivity == 3
MaxVolumeSteps == 5
InitialVolume == 50
\* smoothing = 0.3, in tenths
SmoothingTenths == 3
MAX_MOUSE_SPEED == 200
\* PINCH_THRESHOLD = 0.22, in hundredths of the hand size
PINCH_THRESHOLD == 22
\* hand_size below which the distance is not divided, in pixels
MinHandSize == 1
\* the distance returned for such a hand: 1.0, in hundredths
FarApart == 100
\* pixels the thumb tip must be above or below the wrist
ThumbMargin == 15

\* GestureType, without HOOK, which the classifier never returns
GestureType == {"NONE", "OPEN_PALM", "FIST", "POINT", "PEACE", "THUMBS_UP",
                "THUMBS_DOWN", "PINCH", "THREE_FINGERS", "ROCK", "OK_SIGN"}

\* Python's None as the value of _last_gesture and _selection_start
NoGesture == "None"
NoPosition == <<-1, -1>>

-----------------------------------------------------------------------------
(* Device actions: the pyautogui calls and the speech call of the handler *)

PointerMove(x, y) == [op |-> "PointerMove", x |-> x, y |-> y]
PointerDown == [op |-> "PointerDown"]
PointerUp == [op |-> "PointerUp"]
PointerClick(b) == [op |-> "PointerClick", button |-> b]
ScrollUp(n) == [op |-> "ScrollUp", n |-> n]
ScrollDown(n) == [op |-> "ScrollDown", n |-> n]
VolumeUp == [op |-> "VolumeUp"]
VolumeDown == [op |-> "VolumeDown"]
VoiceActivateSignal == [op |-> "VoiceActivateSignal"]

Emit(s, a) == [s EXCEPT !.out = Append(@, a)]

Max(a, b) == IF a >= b THEN a ELSE b
Min(a, b) == IF a <= b THEN a ELSE b

\* Python's int() of a quotient: truncation toward zero
TruncDiv(a, b) == IF a >= 0 THEN a \div b ELSE -((-a) \div b)

\* n copies of a
Repeat(a, n) == [i \in 1..n |-> a]

-----------------------------------------------------------------------------
(* JarvisController._move_cursor *)

\* int(norm * size), norm the palm coordinate p normalised to the central
\* 60% of the camera frame and clamped to [0, 1]:
\* (p - 0.2 f) / (f - 0.4 f) = (5 p - f) / (3 f)
MapAxis(p, f, size) ==
    LET num == 5 * p - f
        den == 3 * f
    IN  IF num <= 0 THEN 0
        ELSE IF num >= den THEN size
        ELSE (num * size) \div den

\* a _move_cursor that keeps the pointer off the far margins only
ClampMarginUpperOnly(v, size) == Min(v, size - SCREEN_MARGIN)

\* a _move_cursor that does not apply the screen margins
ClampMarginNone(v, size) == v

\* max(SCREEN_MARGIN, min(v, size - SCREEN_MARGIN))
ClampMargin(v, size) == Max(SCREEN_MARGIN, Min(v, size - SCREEN_MARGIN))

\* int(last + (target - last) * (1 - smoothing)) in exact arithmetic; the
\* sum is never negative.  For the positions the palms of the model lead to,
\* Python's doubles give the same integer.
Smooth(last, target) ==
    (10 * last + (10 - SmoothingTenths) * (target - last)) \div 10

\* a _move_cursor without the "first movement" case: it smooths from (0, 0)
move_cursorFromOrigin(s, palm_pos, frame_w, frame_h) ==
    LET screen_x == ClampMargin(MapAxis(palm_pos[1], frame_w, s.screen_width),
                                s.screen_width)
        screen_y == ClampMargin(MapAxis(palm_pos[2], frame_h, s.screen_height),
                                s.screen_height)
        smooth_x == Smooth(s.last_cursor_pos[1], screen_x)
        smooth_y == Smooth(s.last_cursor_pos[2], screen_y)
    IN  [Emit(s, PointerMove(smooth_x, smooth_y))
            EXCEPT !.last_cursor_pos = <<smooth_x, smooth_y>>]

move_cursor(s, palm_pos, frame_w, frame_h) ==
    LET screen_x == ClampMargin(MapAxis(palm_pos[1], frame_w, s.screen_width),
                                s.screen_width)
        screen_y == ClampMargin(MapAxis(palm_pos[2], frame_h, s.screen_height),
                                s.screen_height)
        first == s.last_cursor_pos[1] = 0 /\ s.last_cursor_pos[2] = 0
        last_x == IF first THEN screen_x ELSE s.last_cursor_pos[1]
        last_y == IF first THEN screen_y ELSE s.last_cursor_pos[2]
        smooth_x == Smooth(last_x, screen_x)
        smooth_y == Smooth(last_y, screen_y)
    IN  [Emit(s, PointerMove(smooth_x, smooth_y))
            EXCEPT !.last_cursor_pos = <<smooth_x, smooth_y>>]

-----------------------------------------------------------------------------
(* JarvisController._handle_gesture, branch by branch *)

\* a handler whose cooldown gate never closes
InCooldownNever(s, current_time) == FALSE

\* "Skip if in cooldown"
InCooldown(s, current_time) == current_time < s.gesture_cooldown

\* CooldownOf with the cooldown line of the PEACE branch left out
CooldownOfPeaceMissing(gesture) ==
    CASE gesture \in {"POINT", "THREE_FINGERS"} -> ClickCooldown
      [] gesture = "PEACE" -> 0
      [] gesture \in {"THUMBS_UP", "THUMBS_DOWN"} -> ScrollCooldown
      [] gesture = "ROCK" -> VoiceCooldown

\* CooldownOf with the scroll branches given the click cooldown
CooldownOfScrollAsClick(gesture) ==
    CASE gesture \in {"POINT", "PEACE", "THREE_FINGERS"} -> ClickCooldown
      [] gesture \in {"THUMBS_UP", "THUMBS_DOWN"} -> ClickCooldown
      [] gesture = "ROCK" -> VoiceCooldown

\* the cooldown a discrete action of this gesture leaves, in ticks
CooldownOf(gesture) ==
    CASE gesture \in {"POINT", "PEACE", "THREE_FINGERS"} -> ClickCooldown
      [] gesture \in {"THUMBS_UP", "THUMBS_DOWN"} -> ScrollCooldown
      [] gesture = "ROCK" -> VoiceCooldown

\* ActionOf with the two scroll directions exchanged
ActionOfScrollSwapped(gesture) ==
    CASE gesture = "POINT" -> PointerClick("left")
      [] gesture = "PEACE" -> PointerClick("right")
      [] gesture = "THREE_FINGERS" -> PointerClick("middle")
      [] gesture = "THUMBS_UP" -> ScrollDown(ScrollAmount)
      [] gesture = "THUMBS_DOWN" -> ScrollUp(ScrollAmount)
      [] gesture = "ROCK" -> VoiceActivateSignal

\* the one call a discrete gesture makes
ActionOf(gesture) ==
    CASE gesture = "POINT" -> PointerClick("left")
      [] gesture = "PEACE" -> PointerClick("right")
      [] gesture = "THREE_FINGERS" -> PointerClick("middle")
      [] gesture = "THUMBS_UP" -> ScrollUp(ScrollAmount)
      [] gesture = "THUMBS_DOWN" -> ScrollDown(ScrollAmount)
      [] gesture = "ROCK" -> VoiceActivateSignal

\* POINT, PEACE, THUMBS_UP, THUMBS_DOWN, THREE_FINGERS, ROCK (held):
\* the call, then self._gesture_cooldown = current_time + duration
DiscreteBranch(s, gesture, current_time) ==
    [Emit(s, ActionOf(gesture))
        EXCEPT !.gesture_cooldown = current_time + CooldownOf(gesture)]

\* FIST (held): mouseDown on entry, then the cursor follows the palm
FistBranch(s, palm) ==
    LET entered == IF ~s.dragging
                   THEN [Emit(s, PointerDown) EXCEPT !.dragging = TRUE]
                   ELSE s
    IN  move_cursor(entered, palm, FRAME_WIDTH, FRAME_HEIGHT)

\* a clamp with no ceiling
ClampVolumeNoCeiling(v) == Max(0, v)

\* max(0, min(100, v))
ClampVolume(v) == Max(0, Min(100, v))

\* the volumeup / volumedown presses of a change from old to new, new # old
VolumeKeys(old, new) ==
    IF new > old
    THEN Repeat(VolumeUp, Min(MaxVolumeSteps, new - old))
    ELSE Repeat(VolumeDown, Min(MaxVolumeSteps, old - new))

\* PINCH (held or not): the volume control
PinchBranch(s, is_held, palm) ==
    IF is_held
    THEN IF ~s.volume_mode
         THEN [s EXCEPT !.volume_mode = TRUE, !.volume_start_y = palm[2]]
         ELSE LET delta_y == s.volume_start_y - palm[2]
                  volume_change == TruncDiv(delta_y, VolumeSensitivity)
                  new_volume == ClampVolume(s.current_volume + volume_change)
              IN  IF new_volume # s.current_volume
                  THEN [s EXCEPT
                          !.out = @ \o VolumeKeys(s.current_volume, new_volume),
                          !.current_volume = new_volume,
                          !.volume_start_y = palm[2]]
                  ELSE s
    ELSE IF s.volume_mode THEN [s EXCEPT !.volume_mode = FALSE] ELSE s

\* pyautogui.position(): where the pointer is; in the model only moveTo moves it
Position(s) == s.last_cursor_pos

\* OK_SIGN (held or not): the text selection
OkSignBranch(s, is_held, palm) ==
    IF is_held
    THEN IF ~s.selection_mode
         THEN [Emit(s, PointerDown) EXCEPT !.selection_mode = TRUE,
                                           !.selection_start = Position(s)]
         ELSE move_cursor(s, palm, FRAME_WIDTH, FRAME_HEIGHT)
    ELSE IF s.selection_mode
         THEN [Emit(s, PointerUp) EXCEPT !.selection_mode = FALSE]
         ELSE s

\* a chain whose fall-through leaves volume and selection mode
GestureBranchFallThroughExits(s, gesture, is_held, palm, current_time) ==
    CASE gesture = "OPEN_PALM" /\ is_held ->
            move_cursor(s, palm, FRAME_WIDTH, FRAME_HEIGHT)
      [] gesture \in {"POINT", "PEACE", "THUMBS_UP", "THUMBS_DOWN",
                      "THREE_FINGERS", "ROCK"} /\ is_held ->
            DiscreteBranch(s, gesture, current_time)
      [] gesture = "FIST" /\ is_held -> FistBranch(s, palm)
      [] gesture = "PINCH" -> PinchBranch(s, is_held, palm)
      [] gesture = "OK_SIGN" -> OkSignBranch(s, is_held, palm)
      [] OTHER -> [s EXCEPT !.volume_mode = FALSE, !.selection_mode = FALSE]

\* the if/elif chain over the gesture
GestureBranch(s, gesture, is_held, palm, current_time) ==
    CASE gesture = "OPEN_PALM" /\ is_held ->
            move_cursor(s, palm, FRAME_WIDTH, FRAME_HEIGHT)
      [] gesture \in {"POINT", "PEACE", "THUMBS_UP", "THUMBS_DOWN",
                      "THREE_FINGERS", "ROCK"} /\ is_held ->
            DiscreteBranch(s, gesture, current_time)
      [] gesture = "FIST" /\ is_held -> FistBranch(s, palm)
      [] gesture = "PINCH" -> PinchBranch(s, is_held, palm)
      [] gesture = "OK_SIGN" -> OkSignBranch(s, is_held, palm)
      [] OTHER -> s

\* DragRelease that lets go only when no gesture is shown
DragReleaseOnNone(s, gesture) ==
    IF gesture = "NONE" /\ s.dragging
    THEN [Emit(s, PointerUp) EXCEPT !.dragging = FALSE]
    ELSE s

\* "Release drag if fist is released"
DragRelease(s, gesture) ==
    IF gesture # "FIST" /\ s.dragging
    THEN [Emit(s, PointerUp) EXCEPT !.dragging = FALSE]
    ELSE s

\* a handler whose gate stops the discrete gestures only
handle_gestureContinuousBypass(s, gesture, is_held, palm, current_time) ==
    IF InCooldown(s, current_time)
         /\ gesture \in {"POINT", "PEACE", "THUMBS_UP", "THUMBS_DOWN",
                         "THREE_FINGERS", "ROCK"}
    THEN s
    ELSE DragRelease(GestureBranch(s, gesture, is_held, palm, current_time), gesture)

handle_gesture(s, gesture, is_held, palm, current_time) ==
    IF InCooldown(s, current_time)
    THEN s
    ELSE DragRelease(GestureBranch(s, gesture, is_held, palm, current_time), gesture)

-----------------------------------------------------------------------------
(* GestureRecognizer.recognize: the temporal tracker.  The gesture is the  *)
(* classifier's result for the frame.                                      *)

\* a tracker for which every gesture is held from its first frame
recognizeHeldAtOnce(r, gesture, current_time) ==
    [last_gesture |-> gesture,
     gesture_start_time |-> (IF gesture # r.last_gesture
                             THEN current_time
                             ELSE r.gesture_start_time),
     is_held |-> TRUE]

\* a tracker that restarts the hold timer on every call
recognizeRestartsEveryCall(r, gesture, current_time) ==
    [last_gesture |-> gesture,
     gesture_start_time |-> current_time,
     is_held |-> (0 >= GESTURE_HOLD_TIME)]

\* a tracker that never restarts the hold timer
recognizeKeepsStart(r, gesture, current_time) ==
    [last_gesture |-> gesture,
     gesture_start_time |-> r.gesture_start_time,
     is_held |-> (current_time - r.gesture_start_time >= GESTURE_HOLD_TIME)]

recognize(r, gesture, current_time) ==
    LET start == IF gesture # r.last_gesture
                 THEN current_time
                 ELSE r.gesture_start_time
    IN  [last_gesture |-> gesture,
         gesture_start_time |-> start,
         is_held |-> (current_time - start >= GESTURE_HOLD_TIME)]

-----------------------------------------------------------------------------
(* HandLandmarks.get_extended_fingers and the measurements of recognize    *)

\* "Finger is extended if tip is further from wrist than pip"
finger_is_extended(tip_dist, pip_dist) == tip_dist > pip_dist

\* the thumb: "check x-axis movement", by handedness
thumb_is_extended(handedness, thumb_tip_x, thumb_mcp_x) ==
    IF handedness = "Right"
    THEN thumb_tip_x < thumb_mcp_x
    ELSE thumb_tip_x > thumb_mcp_x

\* a get_extended_fingers that reads every hand as a right hand
get_extended_fingersRightOnly(h) ==
    (IF h.thumb_tip_x < h.thumb_mcp_x THEN {"thumb"} ELSE {})
      \cup {f \in OtherFingers : finger_is_extended(h.tip_dist[f], h.pip_dist)}

get_extended_fingers(h) ==
    (IF thumb_is_extended(h.handedness, h.thumb_tip_x, h.thumb_mcp_x)
     THEN {"thumb"} ELSE {})
      \cup {f \in OtherFingers : finger_is_extended(h.tip_dist[f], h.pip_dist)}

\* a _normalized_distance whose value for a degenerate hand is 0
normalized_distanceZeroWhenSmall(distance, hand_size) ==
    IF hand_size < MinHandSize
    THEN 0
    ELSE (100 * distance) \div hand_size

\* distance / hand_size in hundredths, rounded down: it is below
\* PINCH_THRESHOLD exactly when the quotient is below 0.22
normalized_distance(distance, hand_size) ==
    IF hand_size < MinHandSize
    THEN FarApart
    ELSE (100 * distance) \div hand_size

\* np.clip(v, 0, 1) on thousandths
Clip01(v) == Max(0, Min(1000, v))

\* a position that is not clipped
normalize_positionUnclipped(palm, bbox) ==
    <<(2000 * palm[1]) \div (2 * bbox[1] + bbox[3] + 400),
      (2000 * palm[2]) \div (2 * bbox[2] + bbox[4] + 400)>>

\* np.clip(palm / frame, 0, 1) on each axis, frame = bbox origin + half the
\* bbox size + 200, in thousandths rounded down; the frame sizes of the
\* model are positive
normalize_position(palm, bbox) ==
    <<Clip01((2000 * palm[1]) \div (2 * bbox[1] + bbox[3] + 400)),
      Clip01((2000 * palm[2]) \div (2 * bbox[2] + bbox[4] + 400))>>

-----------------------------------------------------------------------------
(* gestures/mappings.py: GESTURE_ACTIONS and get_gesture_action            *)

\* the members of the enumeration GestureType
GestureEnum == GestureType \cup {"HOOK"}

GestureAction(gesture, name, action_type, command, continuous) ==
    [gesture |-> gesture, name |-> name, action_type |-> action_type,
     command |-> command, continuous |-> continuous]

\* the keys of GESTURE_ACTIONS
MappedGestures ==
    {"OPEN_PALM", "FIST", "POINT", "PEACE", "THUMBS_UP", "THUMBS_DOWN",
     "PINCH", "THREE_FINGERS", "ROCK", "OK_SIGN"}

GESTURE_ACTIONS ==
    [g \in MappedGestures |->
       CASE g = "OPEN_PALM" -> GestureAction(g, "Cursor Mode", "mouse", "move", TRUE)
         [] g = "FIST" -> GestureAction(g, "Drag Mode", "mouse", "drag", TRUE)
         [] g = "POINT" -> GestureAction(g, "Left Click", "mouse", "left_click", FALSE)
         [] g = "PEACE" -> GestureAction(g, "Right Click", "mouse", "right_click", FALSE)
         [] g = "THUMBS_UP" -> GestureAction(g, "Scroll Up", "mouse", "scroll_up", TRUE)
         [] g = "THUMBS_DOWN" -> GestureAction(g, "Scroll Down", "mouse", "scroll_down", TRUE)
         [] g = "PINCH" -> GestureAction(g, "Precision Mode", "mouse", "precision", TRUE)
         [] g = "THREE_FINGERS" -> GestureAction(g, "Middle Click", "mouse", "middle_click", FALSE)
         [] g = "ROCK" -> GestureAction(g, "Voice Activate", "system", "voice_activate", FALSE)
         [] g = "OK_SIGN" -> GestureAction(g, "Confirm", "keyboard", "enter", FALSE)]

\* Python's None as the result of dict.get
NoAction == [gesture |-> "None"]

\* a lookup that answers with the cursor entry when the key is missing
get_gesture_actionWithDefault(gesture) ==
    IF gesture \in DOMAIN GESTURE_ACTIONS
    THEN GESTURE_ACTIONS[gesture]
    ELSE GESTURE_ACTIONS["OPEN_PALM"]

\* GESTURE_ACTIONS.get(gesture)
get_gesture_action(gesture) ==
    IF gesture \in DOMAIN GESTURE_ACTIONS
    THEN GESTURE_ACTIONS[gesture]
    ELSE NoAction

-----------------------------------------------------------------------------
(* GestureRecognizer._classify_gesture.  extended is the set of names in   *)
(* the list get_extended_fingers returns, which holds no name twice.       *)

\* thumb and index close together
PinchRule(extended) ==
    IF {"middle", "ring", "pinky"} \subseteq extended THEN "OK_SIGN" ELSE "PINCH"

\* finger rules that look for the open palm before the three fingers
FingerRulesPalmBeforeThree(extended, thumb_y, wrist_y) ==
    LET num_extended == Cardinality(extended)
    IN  IF num_extended = 0 THEN "FIST"
        ELSE IF num_extended = 1 /\ "thumb" \in extended
                /\ thumb_y < wrist_y - ThumbMargin THEN "THUMBS_UP"
        ELSE IF num_extended = 1 /\ "thumb" \in extended
                /\ thumb_y > wrist_y + ThumbMargin THEN "THUMBS_DOWN"
        ELSE IF "index" \in extended /\ num_extended <= 2
                /\ (num_extended = 1 \/ (num_extended = 2 /\ "thumb" \in extended))
             THEN "POINT"
        ELSE IF num_extended = 2 /\ "index" \in extended /\ "middle" \in extended
             THEN "PEACE"
        ELSE IF num_extended = 2 /\ "index" \in extended /\ "pinky" \in extended
             THEN "ROCK"
        ELSE IF num_extended >= 3 THEN "OPEN_PALM"
        ELSE IF num_extended = 3 /\ "index" \in extended /\ "middle" \in extended
                /\ "ring" \in extended
             THEN "THREE_FINGERS"
        ELSE "NONE"

\* finger rules that take a thumb exactly at the margin for up or down
FingerRulesMarginInclusive(extended, thumb_y, wrist_y) ==
    LET num_extended == Cardinality(extended)
    IN  IF num_extended = 0 THEN "FIST"
        ELSE IF num_extended = 1 /\ "thumb" \in extended
                /\ thumb_y <= wrist_y - ThumbMargin THEN "THUMBS_UP"
        ELSE IF num_extended = 1 /\ "thumb" \in extended
                /\ thumb_y >= wrist_y + ThumbMargin THEN "THUMBS_DOWN"
        ELSE IF "index" \in extended /\ num_extended <= 2
                /\ (num_extended = 1 \/ (num_extended = 2 /\ "thumb" \in extended))
             THEN "POINT"
        ELSE IF num_extended = 2 /\ "index" \in extended /\ "middle" \in extended
             THEN "PEACE"
        ELSE IF num_extended = 2 /\ "index" \in extended /\ "pinky" \in extended
             THEN "ROCK"
        ELSE IF num_extended = 3 /\ "index" \in extended /\ "middle" \in extended
                /\ "ring" \in extended
             THEN "THREE_FINGERS"
        ELSE IF num_extended >= 3 THEN "OPEN_PALM"
        ELSE "NONE"

\* the rules below the pinch check, in the order of the code
FingerRules(extended, thumb_y, wrist_y) ==
    LET num_extended == Cardinality(extended)
    IN  IF num_extended = 0 THEN "FIST"
        ELSE IF num_extended = 1 /\ "thumb" \in extended
                /\ thumb_y < wrist_y - ThumbMargin THEN "THUMBS_UP"
        ELSE IF num_extended = 1 /\ "thumb" \in extended
                /\ thumb_y > wrist_y + ThumbMargin THEN "THUMBS_DOWN"
        ELSE IF "index" \in extended /\ num_extended <= 2
                /\ (num_extended = 1 \/ (num_extended = 2 /\ "thumb" \in extended))
             THEN "POINT"
        ELSE IF num_extended = 2 /\ "index" \in extended /\ "middle" \in extended
             THEN "PEACE"
        ELSE IF num_extended = 2 /\ "index" \in extended /\ "pinky" \in extended
             THEN "ROCK"
        ELSE IF num_extended = 3 /\ "index" \in extended /\ "middle" \in extended
                /\ "ring" \in extended
             THEN "THREE_FINGERS"
        ELSE IF num_extended >= 3 THEN "OPEN_PALM"
        ELSE "NONE"

\* a classifier that looks for the fist before the pinch
classify_gestureFistFirst(extended, thumb_index_dist, thumb_y, wrist_y) ==
    IF extended = {} THEN "FIST"
    ELSE IF thumb_index_dist < PINCH_THRESHOLD THEN PinchRule(extended)
    ELSE FingerRules(extended, thumb_y, wrist_y)

\* a classifier that takes a distance equal to the threshold for a pinch
classify_gesturePinchAtThreshold(extended, thumb_index_dist, thumb_y, wrist_y) ==
    IF thumb_index_dist <= PINCH_THRESHOLD
    THEN PinchRule(extended)
    ELSE FingerRules(extended, thumb_y, wrist_y)

classify_gesture(extended, thumb_index_dist, thumb_y, wrist_y) ==
    IF thumb_index_dist < PINCH_THRESHOLD
    THEN PinchRule(extended)
    ELSE FingerRules(extended, thumb_y, wrist_y)

-----------------------------------------------------------------------------
(* The state machine *)

\* the fields of the JarvisController the handler reads and writes
Controller ==
    [gesture_cooldown |-> gesture_cooldown,
     dragging |-> dragging,
     volume_mode |-> volume_mode,
     volume_start_y |-> volume_start_y,
     current_volume |-> current_volume,
     selection_mode |-> selection_mode,
     selection_start |-> selection_start,
     last_cursor_pos |-> last_cursor_pos,
     screen_width |-> screen[1],
     screen_height |-> screen[2],
     out |-> <<>>]

Recognizer ==
    [last_gesture |-> last_gesture, gesture_start_time |-> gesture_start_time]

HasOp(seq, o) == \E i \in 1..Len(seq) : seq[i].op = o
CountOps(seq, ops) == Cardinality({i \in 1..Len(seq) : seq[i].op \in ops})

\* before the first call of the classifier
NoHand ==
    [extended |-> {}, thumb_index_dist |-> 0, thumb_y |-> 0, wrist_y |-> 0]

\* no hand given to the recognizer on its own, no position computed
NoLandmarks == [handedness |-> "None"]
NoAnchor == <<-1, -1>>

NoFrame ==
    [hand |-> FALSE, gesture |-> NoGesture, is_held |-> FALSE, palm |-> <<0, 0>>,
     t_rec |-> 0, skipped |-> FALSE, after_gap |-> FALSE]

\* JarvisController.__init__ and GestureRecognizer.__init__
InitPipeline ==
    /\ clock = 0
    /\ last_gesture = NoGesture
    /\ gesture_start_time = 0
    /\ gesture_cooldown = 0
    /\ dragging = FALSE
    /\ volume_mode = FALSE
    /\ volume_start_y = 0
    /\ current_volume = InitialVolume
    /\ selection_mode = FALSE
    /\ selection_start = NoPosition
    /\ last_cursor_pos = <<0, 0>>
    /\ screen \in ScreenSet
    /\ frame = NoFrame
    /\ actions = <<>>
    /\ last_click = -1
    /\ click_gap = -1
    /\ frames = 0
    /\ streak_fired = 0
    /\ observed = NoHand
    /\ classified = NoGesture
    /\ position = NoAnchor
    /\ info = NoAction
    /\ queue = <<>>
    /\ running = FALSE
    /\ thread = "none"
    /\ text = 0
    /\ caller = "idle"
    /\ calls = 0
    /\ spoken = <<>>

Init == InitPipeline /\ hand = NoLandmarks

\* the same with a hand in front of the camera for the recognizer on its own
InitClassify == InitPipeline /\ hand \in HandSet

\* One iteration of _run_gesture_loop with a hand in the frame: recognize at
\* clock + dt, then _handle_gesture at clock + dt + lag.  A run has at most
\* limit iterations.
HandFrameWithin(limit, gesture, palm, dt, lag) ==
    \E t_rec \in {clock + dt} :
    \E current_time \in {t_rec + lag} :
    \E gs \in {recognize(Recognizer, gesture, t_rec)} :
    \E s \in {handle_gesture(Controller, gesture, gs.is_held, palm, current_time)} :
    \E same_streak \in {gesture = last_gesture} :
    \E clicked \in {HasOp(s.out, "PointerClick")} :
        /\ current_time <= MaxTime
        /\ frames < limit
        /\ frames' = frames + 1
        /\ clock' = current_time
        /\ last_gesture' = gs.last_gesture
        /\ gesture_start_time' = gs.gesture_start_time
        /\ gesture_cooldown' = s.gesture_cooldown
        /\ dragging' = s.dragging
        /\ volume_mode' = s.volume_mode
        /\ volume_start_y' = s.volume_start_y
        /\ current_volume' = s.current_volume
        /\ selection_mode' = s.selection_mode
        /\ selection_start' = s.selection_start
        /\ last_cursor_pos' = s.last_cursor_pos
        /\ screen' = screen
        /\ actions' = s.out
        /\ frame' = [hand |-> TRUE, gesture |-> gesture, is_held |-> gs.is_held,
                     palm |-> palm, t_rec |-> t_rec,
                     skipped |-> InCooldown(Controller, current_time),
                     after_gap |-> (frames > 0 /\ ~frame.hand)]
        /\ last_click' = IF clicked THEN current_time ELSE last_click
        /\ click_gap' = IF clicked /\ last_click # -1
                        THEN current_time - last_click
                        ELSE click_gap
        /\ streak_fired' =
              Min(2, (IF same_streak THEN streak_fired ELSE 0)
                     + CountOps(s.out, {"PointerClick", "VoiceActivateSignal"}))
        /\ info' = get_gesture_action(gesture)
        /\ UNCHANGED <<observed, classified, hand, position>>
        /\ UNCHANGED speech_vars

\* a loop that lets a drag go when the hand is out of view
NoHandFrameWithinReleasesDrag(limit) ==
    /\ frames < limit
    /\ frames' = frames + 1
    /\ frame' = [frame EXCEPT !.hand = FALSE, !.after_gap = FALSE]
    /\ actions' = IF dragging THEN <<PointerUp>> ELSE <<>>
    /\ dragging' = FALSE
    /\ UNCHANGED <<clock, last_gesture, gesture_start_time, gesture_cooldown,
                   volume_mode, volume_start_y, current_volume,
                   selection_mode, selection_start, last_cursor_pos, screen,
                   last_click, click_gap, streak_fired, observed, classified,
                   hand, position, info>>
    /\ UNCHANGED speech_vars

\* a loop that resets the tracker when the hand is out of view
NoHandFrameWithinResetsTracker(limit) ==
    /\ frames < limit
    /\ frames' = frames + 1
    /\ frame' = [frame EXCEPT !.hand = FALSE, !.after_gap = FALSE]
    /\ actions' = <<>>
    /\ last_gesture' = NoGesture
    /\ gesture_start_time' = 0
    /\ UNCHANGED <<clock, gesture_cooldown,
                   dragging, volume_mode, volume_start_y, current_volume,
                   selection_mode, selection_start, last_cursor_pos, screen,
                   last_click, click_gap, streak_fired, observed, classified,
                   hand, position, info>>
    /\ UNCHANGED speech_vars

\* One iteration of _run_gesture_loop with no hand in the frame: neither the
\* recognizer nor the handler runs.
NoHandFrameWithin(limit) ==
    /\ frames < limit
    /\ frames' = frames + 1
    /\ frame' = [frame EXCEPT !.hand = FALSE, !.after_gap = FALSE]
    /\ actions' = <<>>
    /\ UNCHANGED <<clock, last_gesture, gesture_start_time, gesture_cooldown,
                   dragging, volume_mode, volume_start_y, current_volume,
                   selection_mode, selection_start, last_cursor_pos, screen,
                   last_click, click_gap, streak_fired, observed, classified,
                   hand, position, info>>
    /\ UNCHANGED speech_vars

HandFrame(gesture, palm, dt, lag) ==
    HandFrameWithin(MaxFrames, gesture, palm, dt, lag)

NoHandFrame == NoHandFrameWithin(MaxFrames)

Next ==
    \/ \E gesture \in GestureType, dt \in DtSet, lag \in LagSet :
          \E palm \in PalmSet(gesture) : HandFrame(gesture, palm, dt, lag)
    \/ NoHandFrame

Spec == Init /\ [][Next]_vars

-----------------------------------------------------------------------------
(* The volume control on its own: runs of PINCH frames at several heights, *)
(* with POINT frames (a click and its cooldown) between them.              *)

NextVolume ==
    \/ \E palm \in VolumePalmSet : HandFrameWithin(MaxVolumeFrames, "PINCH", palm, 1, 0)
    \/ HandFrameWithin(MaxVolumeFrames, "POINT", <<320, 240>>, 1, 0)
    \/ NoHandFrameWithin(MaxVolumeFrames)

SpecVolume == Init /\ [][NextVolume]_vars

-----------------------------------------------------------------------------
(* The cursor on its own: runs of OPEN_PALM and FIST frames, 0.05 s apart, *)
(* with the palm at several places of the camera frame.                    *)

NextCursor ==
    \/ \E palm \in CursorPalmSet : HandFrameWithin(MaxFrames, "OPEN_PALM", palm, 1, 0)
    \/ \E palm \in CursorPalmSet : HandFrameWithin(MaxFrames, "FIST", palm, 1, 0)
    \/ NoHandFrameWithin(MaxFrames)

SpecCursor == Init /\ [][NextCursor]_vars

-----------------------------------------------------------------------------
(* The recognizer on its own: the first call of recognize, for the hand in *)
(* front of the camera: the extended fingers, the thumb-index distance,    *)
(* the classification and the position.                                    *)

Classify ==
    \E extended \in {get_extended_fingers(hand)} :
    \E thumb_index_dist \in {normalized_distance(hand.thumb_index_px, hand.hand_size)} :
        /\ classified = NoGesture
        /\ observed' = [extended |-> extended, thumb_index_dist |-> thumb_index_dist,
                        thumb_y |-> hand.thumb_y, wrist_y |-> hand.wrist_y]
        /\ classified' = classify_gesture(extended, thumb_index_dist,
                                          hand.thumb_y, hand.wrist_y)
        /\ position' = normalize_position(hand.anchor.palm, hand.anchor.bbox)
        /\ UNCHANGED <<clock, last_gesture, gesture_start_time, gesture_cooldown,
                       dragging, volume_mode, volume_start_y, current_volume,
                       selection_mode, selection_start, last_cursor_pos, screen,
                       frame, actions, last_click, click_gap, frames, streak_fired,
                       hand, info>>
        /\ UNCHANGED speech_vars

NextClassify == Classify

SpecClassify == InitClassify /\ [][NextClassify]_vars

-----------------------------------------------------------------------------
(* TextToSpeech.speak_async and its background worker, with speech         *)
(* enabled.  One thread calls speak_async; the worker thread runs          *)
(* _worker_loop.  Each step is one statement of the code, so the two       *)
(* threads interleave between statements.                                  *)

\* speak_async: self._queue.put(text)
speak_async_put ==
    /\ caller = "idle"
    /\ calls < MaxTexts
    /\ calls' = calls + 1
    /\ queue' = Append(queue, calls + 1)
    /\ caller' = "check"
    /\ UNCHANGED <<running, thread, text, spoken>>
    /\ UNCHANGED pipeline_vars

\* speak_async: if not self._running: self._start_worker(), which sets
\* _running and starts a thread at the top of _worker_loop
speak_async_start ==
    /\ caller = "check"
    /\ caller' = "idle"
    /\ IF ~running
       THEN running' = TRUE /\ thread' = "get"
       ELSE UNCHANGED <<running, thread>>
    /\ UNCHANGED <<queue, text, calls, spoken>>
    /\ UNCHANGED pipeline_vars

\* _worker_loop: self._queue.get(timeout=1.0) returns the oldest text
worker_get ==
    /\ thread = "get"
    /\ queue # <<>>
    /\ text' = Head(queue)
    /\ queue' = Tail(queue)
    /\ thread' = "speak"
    /\ UNCHANGED <<running, caller, calls, spoken>>
    /\ UNCHANGED pipeline_vars

\* _worker_loop: the queue stayed empty for the timeout, get raises Empty
\* and the worker is in the except clause
worker_timeout ==
    /\ thread = "get"
    /\ queue = <<>>
    /\ thread' = "except"
    /\ UNCHANGED <<queue, running, text, caller, calls, spoken>>
    /\ UNCHANGED pipeline_vars

\* _worker_loop: self.speak(text), then the next round of the loop
worker_speak ==
    /\ thread = "speak"
    /\ spoken' = Append(spoken, text)
    /\ text' = 0
    /\ thread' = "get"
    /\ UNCHANGED <<queue, running, caller, calls>>
    /\ UNCHANGED pipeline_vars

\* _worker_loop: if self._queue.empty(), read on its own
worker_empty ==
    /\ thread = "except"
    /\ thread' = IF queue = <<>> THEN "exit" ELSE "get"
    /\ UNCHANGED <<queue, running, text, caller, calls, spoken>>
    /\ UNCHANGED pipeline_vars

\* _worker_loop: self._running = False; break
worker_exit ==
    /\ thread = "exit"
    /\ running' = FALSE
    /\ thread' = "none"
    /\ UNCHANGED <<queue, text, caller, calls, spoken>>
    /\ UNCHANGED pipeline_vars

Worker == worker_get \/ worker_timeout \/ worker_speak \/ worker_empty \/ worker_exit

NextSpeech == speak_async_put \/ speak_async_start \/ Worker

SpecSpeech == Init /\ [][NextSpeech]_vars

\* the worker thread keeps being scheduled and a call of speak_async that
\* has begun returns; nothing makes the caller call again
FairSpecSpeech ==
    SpecSpeech /\ WF_vars(Worker) /\ WF_vars(speak_async_start)

-----------------------------------------------------------------------------
(* Properties of the dispatcher                                            *)

\* the latest loop iteration called _handle_gesture with gesture g, held
HeldFrame(g) == frame.hand /\ frame.gesture = g /\ frame.is_held

DiscreteGestures ==
    {"POINT", "PEACE", "THREE_FINGERS", "THUMBS_UP", "THUMBS_DOWN", "ROCK"}

\* the action the transition table of the specification gives a gesture
TableAction(g) ==
    CASE g = "POINT" -> [op |-> "PointerClick", button |-> "left"]
      [] g = "PEACE" -> [op |-> "PointerClick", button |-> "right"]
      [] g = "THREE_FINGERS" -> [op |-> "PointerClick", button |-> "middle"]
      [] g = "THUMBS_UP" -> [op |-> "ScrollUp", n |-> 3]
      [] g = "THUMBS_DOWN" -> [op |-> "ScrollDown", n |-> 3]
      [] g = "ROCK" -> [op |-> "VoiceActivateSignal"]

\* C1: in every reachable state at most one of dragging, volume_mode and
\* selection_mode is true.
C1_AtMostOneMode ==
    /\ ~(dragging /\ volume_mode)
    /\ ~(dragging /\ selection_mode)
    /\ ~(volume_mode /\ selection_mode)

\* C2: every call of the handler with a gesture other than FIST ends with
\* dragging false, and emits PointerUp when dragging was true before it.
C2_DragReleasedOffFist ==
    [][(frame'.hand /\ frame'.gesture # "FIST")
          => (~dragging' /\ (dragging => HasOp(actions', "PointerUp")))]_vars

\* a call with POINT released a drag
C2_Witness ==
    /\ frame.hand /\ frame.gesture = "POINT"
    /\ actions = <<PointerUp>>
    /\ ~dragging

\* C3: in a streak of held FIST frames the first held frame emits PointerDown
\* then PointerMove, and every later held frame emits PointerMove only.
C3_FistDownOnceThenMoves ==
    [][(frame'.hand /\ frame'.gesture = "FIST" /\ frame'.is_held)
          => IF frame.gesture = "FIST" /\ frame.is_held
             THEN /\ Len(actions') = 1
                  /\ actions'[1].op = "PointerMove"
             ELSE /\ Len(actions') = 2
                  /\ actions'[1].op = "PointerDown"
                  /\ actions'[2].op = "PointerMove"]_vars

\* C4: a call of the handler in selection mode with anything but a held
\* OK_SIGN emits PointerUp and leaves selection mode.
C4_SelectionEndsOffOkSign ==
    [][(selection_mode /\ frame'.hand
            /\ ~(frame'.gesture = "OK_SIGN" /\ frame'.is_held))
          => (HasOp(actions', "PointerUp") /\ ~selection_mode')]_vars

\* C5: after a call of the handler whose gesture is not a held PINCH,
\* volume_mode is false.
C5_VolumeModeOnlyOnHeldPinch ==
    (frame.hand /\ ~(frame.gesture = "PINCH" /\ frame.is_held)) => ~volume_mode

\* C6: a held OPEN_PALM or held FIST frame emits a PointerMove also when the
\* call falls before the end of the cooldown.
C6_ContinuousBypassCooldown ==
    (frame.hand /\ frame.is_held /\ frame.gesture \in {"OPEN_PALM", "FIST"}
        /\ frame.skipped)
      => HasOp(actions, "PointerMove")

\* C7: two PointerClick actions are at least 0.5 s (ClickCooldown ticks) apart.
C7_ClicksHalfSecondApart ==
    click_gap = -1 \/ click_gap >= ClickCooldown

\* a second click came exactly 0.5 s after the first
C7_Witness ==
    /\ click_gap = ClickCooldown
    /\ HasOp(actions, "PointerClick")

\* C8: one uninterrupted streak of a discrete gesture emits at most one
\* PointerClick or VoiceActivateSignal.
C8_OncePerStreak ==
    streak_fired <= 1

\* C9: a held frame of a discrete gesture with the cooldown elapsed emits
\* exactly the action of the transition table and leaves the mode flags as
\* they were.
C9_TableActionOnly ==
    [][(frame'.hand /\ frame'.is_held /\ ~frame'.skipped
            /\ frame'.gesture \in DiscreteGestures)
          => /\ actions' = <<TableAction(frame'.gesture)>>
             /\ dragging' = dragging
             /\ volume_mode' = volume_mode
             /\ selection_mode' = selection_mode]_vars

\* a held THUMBS_DOWN scrolled down by 3 with volume mode left over
C9_Witness ==
    /\ HeldFrame("THUMBS_DOWN") /\ ~frame.skipped
    /\ actions = <<[op |-> "ScrollDown", n |-> 3]>>
    /\ volume_mode

\* C10: a discrete action fired at time t leaves gesture_cooldown = t + its
\* duration (10 ticks click, 4 scroll, 40 voice), and fires only in a call
\* that is not before the end of the cooldown in force.
C10_CooldownExtended ==
    [][(frame'.hand /\ CountOps(actions', {"PointerClick", "ScrollUp", "ScrollDown",
                                           "VoiceActivateSignal"}) > 0)
          => /\ clock' >= gesture_cooldown
             /\ HasOp(actions', "PointerClick")
                   => gesture_cooldown' = clock' + ClickCooldown
             /\ (HasOp(actions', "ScrollUp") \/ HasOp(actions', "ScrollDown"))
                   => gesture_cooldown' = clock' + ScrollCooldown
             /\ HasOp(actions', "VoiceActivateSignal")
                   => gesture_cooldown' = clock' + VoiceCooldown]_vars

\* a second voice signal in one ROCK streak, 2.0 s after the first
C10_Witness ==
    /\ HeldFrame("ROCK")
    /\ streak_fired = 2
    /\ actions = <<VoiceActivateSignal>>
    /\ gesture_cooldown = clock + VoiceCooldown

\* C11 as stated: a call of the handler with gesture NONE emits nothing and
\* changes no mode flag, whatever the state of the dispatcher, dragging
\* included.
C11_NoneIsNoOp ==
    [][(frame'.hand /\ frame'.gesture = "NONE")
          => /\ actions' = <<>>
             /\ dragging' = dragging
             /\ volume_mode' = volume_mode
             /\ selection_mode' = selection_mode]_vars

\* C11: a call of the handler with gesture NONE leaves volume_mode and
\* selection_mode as they were; it emits nothing and leaves dragging as it
\* was unless a drag is in progress and the call is not gated by the
\* cooldown, and then it emits exactly one PointerUp and ends the drag.
C11_NoneOnlyReleasesDrag ==
    [][(frame'.hand /\ frame'.gesture = "NONE")
          => /\ volume_mode' = volume_mode
             /\ selection_mode' = selection_mode
             /\ IF dragging /\ ~frame'.skipped
                THEN actions' = <<[op |-> "PointerUp"]>> /\ ~dragging'
                ELSE actions' = <<>> /\ dragging' = dragging]_vars

\* a call with NONE in volume mode emitted nothing and stayed in volume mode
C11_Witness ==
    /\ frame.hand /\ frame.gesture = "NONE" /\ ~frame.skipped
    /\ actions = <<>>
    /\ volume_mode

-----------------------------------------------------------------------------
(* Properties of the volume control                                        *)

\* what a held PINCH call in volume mode must do on the step from the
\* unprimed to the primed state: a hand 30 pixels above the reference raises
\* the volume by 10, clamped to 100; the presses are min(5, |change|) many,
\* VolumeUp for a raise (hand up) and VolumeDown for a fall
VolumeStep ==
    LET change == current_volume' - current_volume
        ups == IF change > 0 THEN (IF change < 5 THEN change ELSE 5) ELSE 0
        downs == IF change < 0 THEN (IF -change < 5 THEN -change ELSE 5) ELSE 0
    IN  /\ (volume_start_y - frame'.palm[2] = 30)
              => current_volume' = (IF current_volume + 10 > 100
                                    THEN 100 ELSE current_volume + 10)
        /\ CountOps(actions', {"VolumeUp"}) = ups
        /\ CountOps(actions', {"VolumeDown"}) = downs
        /\ Len(actions') = ups + downs
        /\ change > 0 => frame'.palm[2] < volume_start_y
        /\ change < 0 => frame'.palm[2] > volume_start_y

\* C12: in volume mode every held PINCH frame whose palm is 30 pixels above
\* the reference raises current_volume by 10 (clamped to 100), and the frame
\* emits min(5, |new - old|) VolumeUp (hand up) or VolumeDown presses.
C12_VolumeStepEveryHeldPinch ==
    [][(frame'.hand /\ frame'.gesture = "PINCH" /\ frame'.is_held /\ volume_mode)
          => VolumeStep]_vars

\* the same for the calls that pass the cooldown gate
VolumeStepWhenDispatched ==
    [][(frame'.hand /\ frame'.gesture = "PINCH" /\ frame'.is_held /\ volume_mode
            /\ ~frame'.skipped)
          => VolumeStep]_vars

\* C13: current_volume is an integer from 0 to 100 in every reachable state.
C13_VolumeInRange ==
    current_volume \in 0..100

\* a hand far above the reference would have taken the volume past 100: the
\* volume is 100 and the frame pressed VolumeUp
C13_Witness ==
    /\ HeldFrame("PINCH") /\ frame.palm[2] = 75
    /\ HasOp(actions, "VolumeUp")
    /\ current_volume = 100

-----------------------------------------------------------------------------
(* Properties of the text selection                                        *)

\* C14: in a streak of held OK_SIGN frames the first held frame emits one
\* PointerDown, enters selection mode and captures the start position, and
\* every later held frame of the streak emits PointerMove only.
C14_OkSignDownOnceThenMoves ==
    [][(frame'.hand /\ frame'.gesture = "OK_SIGN" /\ frame'.is_held)
          => IF frame.gesture = "OK_SIGN" /\ frame.is_held
             THEN /\ Len(actions') = 1
                  /\ actions'[1].op = "PointerMove"
             ELSE /\ actions' = <<[op |-> "PointerDown"]>>
                  /\ selection_mode'
                  /\ selection_start' = last_cursor_pos]_vars

-----------------------------------------------------------------------------
(* Properties of the classifier                                            *)

\* the classifier has been called
Classified == classified # NoGesture

\* C15: when the thumb-index distance is below PINCH_THRESHOLD the classifier
\* returns OK_SIGN if middle, ring and pinky are all extended and PINCH
\* otherwise, never another gesture.
C15_PinchWins ==
    (Classified /\ observed.thumb_index_dist < 22)
      => classified = (IF {"middle", "ring", "pinky"} \subseteq observed.extended
                       THEN "OK_SIGN" ELSE "PINCH")

\* no finger extended, which away from a pinch is a fist, classified PINCH
C15_Witness ==
    /\ Classified
    /\ observed.extended = {} /\ observed.thumb_index_dist = 21
    /\ classified = "PINCH"

\* C16 as stated: a hand with all five digits extended is classified
\* OPEN_PALM whatever the thumb-index distance.
C16_FiveFingersOpenPalm ==
    (Classified /\ observed.extended = Fingers) => classified = "OPEN_PALM"

\* C16: a hand with all five digits extended is classified OPEN_PALM when
\* the thumb-index distance is at least PINCH_THRESHOLD, and OK_SIGN when it
\* is below; never NONE.
C16_FiveFingersOpenPalmOffPinch ==
    (Classified /\ observed.extended = Fingers)
      => classified = (IF observed.thumb_index_dist >= 22
                       THEN "OPEN_PALM" ELSE "OK_SIGN")

\* five digits extended with the distance exactly at the threshold
C16_Witness ==
    /\ Classified
    /\ observed.extended = Fingers /\ observed.thumb_index_dist = 22
    /\ classified = "OPEN_PALM"

-----------------------------------------------------------------------------
(* Properties of the temporal tracker                                      *)

\* C17: on every call of the recognizer, gesture_start_time becomes the
\* time of the call when the gesture differs from that of the call before
\* and stays as it was otherwise, so it is the time of the first frame of the
\* current run of equal gestures; is_held is true exactly when the time of
\* the call minus gesture_start_time is at least GESTURE_HOLD_TIME (1 tick).
C17_HoldTimer ==
    [][frame'.hand
          => /\ gesture_start_time' = (IF frame'.gesture # frame.gesture
                                       THEN frame'.t_rec
                                       ELSE gesture_start_time)
             /\ frame'.is_held <=> (frame'.t_rec - gesture_start_time' >= 1)]_vars

\* the third frame of a run of OPEN_PALM, 0.55 s after the first: the timer
\* still holds the time of the first
C17_Witness ==
    /\ HeldFrame("OPEN_PALM")
    /\ frames = 3
    /\ gesture_start_time = 0
    /\ frame.t_rec = 11

-----------------------------------------------------------------------------
(* Properties of the cursor                                                *)

\* the position the latest palm maps to before smoothing: scaled to the
\* screen and clamped to the margins
RawTarget(palm) ==
    <<ClampMargin(MapAxis(palm[1], FRAME_WIDTH, screen[1]), screen[1]),
      ClampMargin(MapAxis(palm[2], FRAME_HEIGHT, screen[2]), screen[2])>>

\* the step emits a PointerMove, and it is not the first ever
LaterMove == HasOp(actions', "PointerMove") /\ last_cursor_pos # <<0, 0>>

\* b lies between a and c
Between(a, b, c) == (a <= b /\ b <= c) \/ (c <= b /\ b <= a)

Abs(a) == IF a >= 0 THEN a ELSE -a

\* C18: with the raw target held constant over consecutive move frames, every
\* emitted coordinate lies between the one emitted before and the target, and
\* the emitted position reaches the target after finitely many frames, from
\* above and from below.  A move is a function of the last position and the
\* target, so a move toward a target that leaves the position where it was
\* leaves it there on every later frame with that target: the position
\* reaches the target only if such a position is the target itself.
C18_SmoothingConverges ==
    [][LaterMove
          => /\ Between(last_cursor_pos[1], last_cursor_pos'[1], RawTarget(frame'.palm)[1])
             /\ Between(last_cursor_pos[2], last_cursor_pos'[2], RawTarget(frame'.palm)[2])
             /\ last_cursor_pos' = last_cursor_pos
                   => last_cursor_pos' = RawTarget(frame'.palm)]_vars

\* no move goes past its target, in either direction
NeverOvershoots ==
    [][LaterMove
          => /\ Between(last_cursor_pos[1], last_cursor_pos'[1], RawTarget(frame'.palm)[1])
             /\ Between(last_cursor_pos[2], last_cursor_pos'[2], RawTarget(frame'.palm)[2])]_vars

\* C19: the first PointerMove ever emitted (no position recorded before it:
\* last_cursor_pos is still (0, 0), which no move ever stores) carries the
\* raw mapped, margin-clamped position, with no smoothing.
C19_FirstMoveUnsmoothed ==
    [][(HasOp(actions', "PointerMove") /\ last_cursor_pos = <<0, 0>>)
          => /\ last_cursor_pos' = RawTarget(frame'.palm)
             /\ \A i \in 1..Len(actions') :
                   actions'[i].op = "PointerMove"
                     => <<actions'[i].x, actions'[i].y>> = RawTarget(frame'.palm)]_vars

\* the first move of a run, with the palm at the lower right corner of the
\* active zone, went straight to the margin of the screen
C19_Witness ==
    /\ HeldFrame("OPEN_PALM") /\ frame.palm = <<512, 384>>
    /\ frames = 2
    /\ actions = <<[op |-> "PointerMove", x |-> 1890, y |-> 1050]>>

\* C20: between two consecutive PointerMove actions the position changes by
\* at most MAX_MOUSE_SPEED (200) pixels on each axis.
C20_SpeedCapped ==
    [][LaterMove
          => /\ Abs(last_cursor_pos'[1] - last_cursor_pos[1]) <= MAX_MOUSE_SPEED
             /\ Abs(last_cursor_pos'[2] - last_cursor_pos[2]) <= MAX_MOUSE_SPEED]_vars

-----------------------------------------------------------------------------
(* Properties of the measurements of the recognizer                        *)

\* C21: when the hand size (wrist to middle-finger base) is below 1 pixel,
\* the thumb-index distance is the sentinel 1.0 (100 hundredths) whatever the
\* distance of the tips, and the hand is classified neither PINCH nor OK_SIGN.
C21_DegenerateHandNeverPinch ==
    (Classified /\ hand.hand_size < 1)
      => /\ observed.thumb_index_dist = 100
         /\ classified \notin {"PINCH", "OK_SIGN"}

\* a hand of size 0 with thumb tip and index tip at the same point and no
\* finger extended: the distance is 1.0 and the hand is a FIST
C21_Witness ==
    /\ Classified
    /\ hand.hand_size = 0 /\ hand.thumb_index_px = 0
    /\ observed.thumb_index_dist = 100
    /\ classified = "FIST"

-----------------------------------------------------------------------------
(* Properties of the gesture-to-action table                               *)

-----------------------------------------------------------------------------
(* The classifier against the precedence list of the specification         *)

\* the nine rules, first match wins; distance in hundredths of the hand
\* size, heights in pixels growing downward
NineRules(extended, thumb_index_dist, thumb_y, wrist_y) ==
    IF thumb_index_dist < 22
    THEN (IF {"middle", "ring", "pinky"} \subseteq extended THEN "OK_SIGN" ELSE "PINCH")
    ELSE IF extended = {} THEN "FIST"
    ELSE IF extended = {"thumb"}
         THEN (IF wrist_y - thumb_y > 15 THEN "THUMBS_UP"
               ELSE IF thumb_y - wrist_y > 15 THEN "THUMBS_DOWN"
               ELSE "NONE")
    ELSE IF extended = {"index"} \/ extended = {"index", "thumb"} THEN "POINT"
    ELSE IF extended = {"index", "middle"} THEN "PEACE"
    ELSE IF extended = {"index", "pinky"} THEN "ROCK"
    ELSE IF extended = {"index", "middle", "ring"} THEN "THREE_FINGERS"
    ELSE IF Cardinality(extended) >= 3 THEN "OPEN_PALM"
    ELSE "NONE"

\* C23: for every set of extended digits, every thumb-index distance and
\* every thumb height the classifier returns the gesture of the first
\* matching rule of the nine; no digit extended and no pinch gives FIST,
\* {thumb, index} gives POINT, and the result is one of the eleven gestures.
C23_ClassifierIsNineRules ==
    Classified
      => /\ classified = NineRules(observed.extended, observed.thumb_index_dist,
                                   observed.thumb_y, observed.wrist_y)
         /\ (observed.extended = {} /\ observed.thumb_index_dist >= 22)
               => classified = "FIST"
         /\ (observed.extended = {"thumb", "index"} /\ observed.thumb_index_dist >= 22)
               => classified = "POINT"
         /\ classified \in {"NONE", "OPEN_PALM", "FIST", "POINT", "PEACE",
                            "THUMBS_UP", "THUMBS_DOWN", "PINCH", "THREE_FINGERS",
                            "ROCK", "OK_SIGN"}

\* index, middle and ring extended, which is also "three or more digits":
\* the earlier rule wins
C23_Witness ==
    /\ Classified
    /\ observed.extended = {"index", "middle", "ring"}
    /\ observed.thumb_index_dist = 50
    /\ classified = "THREE_FINGERS"

\* C24: with exactly the thumb extended and no pinch, the classifier returns
\* THUMBS_UP when the thumb tip is more than 15 pixels above the wrist,
\* THUMBS_DOWN when it is more than 15 pixels below, and NONE when it is
\* within 15 pixels of the wrist height.
C24_ThumbOnly ==
    (Classified /\ observed.extended = {"thumb"} /\ observed.thumb_index_dist >= 22)
      => classified = (IF observed.thumb_y < observed.wrist_y - 15 THEN "THUMBS_UP"
                       ELSE IF observed.thumb_y > observed.wrist_y + 15 THEN "THUMBS_DOWN"
                       ELSE "NONE")

\* the thumb tip exactly 15 pixels above the wrist: within the margin, NONE
C24_Witness ==
    /\ Classified
    /\ observed.extended = {"thumb"} /\ observed.thumb_index_dist = 50
    /\ observed.thumb_y = 285 /\ observed.wrist_y = 300
    /\ classified = "NONE"

-----------------------------------------------------------------------------
(* Properties of the order and balance of the pointer-button actions       *)

\* C25: in the action list of a frame no PointerDown, PointerClick, ScrollUp,
\* ScrollDown or VoiceActivateSignal comes before a PointerUp: the release
\* that ends a mode is never preceded, within its frame, by the entry of
\* another mode or by a discrete action.
C25_ExitBeforeEntry ==
    \A i \in 1..Len(actions) : \A j \in 1..Len(actions) :
        (i < j /\ actions[j].op = "PointerUp")
          => actions[i].op \notin {"PointerDown", "PointerClick", "ScrollUp",
                                   "ScrollDown", "VoiceActivateSignal"}

\* the first PEACE frame after a drag: the drag is released, and the click
\* has to wait for the next frame
C25_Witness ==
    /\ frame.hand /\ frame.gesture = "PEACE" /\ ~frame.is_held
    /\ actions = <<[op |-> "PointerUp"]>>
    /\ ~dragging

-----------------------------------------------------------------------------
(* Properties of the volume reference                                      *)

\* C26: after every held PINCH frame handled in volume mode the reference
\* volume_start_y is the palm height of that frame, also when the volume did
\* not change.
C26_ReferenceFollowsPalm ==
    [][(frame'.hand /\ frame'.gesture = "PINCH" /\ frame'.is_held /\ volume_mode
            /\ ~frame'.skipped)
          => volume_start_y' = frame'.palm[2]]_vars


\* C27: every PointerMove the controller emits lies inside the screen margins,
\* SCREEN_MARGIN <= x <= width - SCREEN_MARGIN and SCREEN_MARGIN <= y <=
\* height - SCREEN_MARGIN, wherever the palm is, outside the camera frame
\* included.
C27_MoveInsideMargins ==
    \A i \in 1..Len(actions) :
        actions[i].op = "PointerMove"
            => /\ SCREEN_MARGIN <= actions[i].x
               /\ actions[i].x <= screen[1] - SCREEN_MARGIN
               /\ SCREEN_MARGIN <= actions[i].y
               /\ actions[i].y <= screen[2] - SCREEN_MARGIN

\* a palm left of and below the camera frame puts the pointer on the margins
C27_Witness ==
    /\ frame.hand
    /\ frame.palm = <<-50, 500>>
    /\ \E i \in 1..Len(actions) :
           actions[i] = PointerMove(SCREEN_MARGIN, screen[2] - SCREEN_MARGIN)


\* C28: the position of every GestureState the recognizer returns lies in
\* [0, 1] x [0, 1] (0..1000 thousandths on each axis), for every palm centre
\* and bounding box.
C28_PositionInUnitSquare ==
    Classified => /\ 0 <= position[1] /\ position[1] <= 1000
                  /\ 0 <= position[2] /\ position[2] <= 1000

\* a palm right of and below the estimated frame size is clipped to (1, 1)
C28_Witness ==
    /\ Classified
    /\ hand.anchor.palm = <<600, 450>>
    /\ position = <<1000, 1000>>


\* the same landmarks read as the other hand
OtherHand(h) ==
    [h EXCEPT !.handedness = IF @ = "Right" THEN "Left" ELSE "Right"]

\* C29: thumb extension is mirrored by handedness.  For the landmarks of a
\* classified hand, with thumb-tip x different from thumb-base x the thumb is
\* extended for exactly one of Right and Left (Right: tip x < base x, Left:
\* tip x > base x), with equal x for neither, and the other four fingers are
\* the same for both.
C29_ThumbMirrored ==
    Classified =>
        LET e == observed.extended
            m == get_extended_fingers(OtherHand(hand))
            tip == hand.thumb_tip_x
            base == hand.thumb_mcp_x
        IN  /\ tip # base => (("thumb" \in e) # ("thumb" \in m))
            /\ tip = base => ("thumb" \notin e /\ "thumb" \notin m)
            /\ hand.handedness = "Right" => (("thumb" \in e) = (tip < base))
            /\ hand.handedness = "Left" => (("thumb" \in e) = (tip > base))
            /\ e \ {"thumb"} = m \ {"thumb"}

\* a left hand with the thumb tip right of its base and the index raised:
\* thumb and index are reported, and the thumb would not be for a right hand
C29_Witness ==
    /\ Classified
    /\ hand.handedness = "Left"
    /\ hand.thumb_tip_x > hand.thumb_mcp_x
    /\ observed.extended = {"thumb", "index"}
    /\ "thumb" \notin get_extended_fingers(OtherHand(hand))


\* the pointer-button actions of a frame, in the order they were emitted
IsButton(a) == a.op \in {"PointerDown", "PointerUp"}
Buttons(seq) == SelectSeq(seq, IsButton)

\* C30: pointer-button actions are balanced.  With the button held exactly
\* when a drag or a selection is on, the button actions of every frame
\* alternate, starting with PointerUp when the button is held and with
\* PointerDown when it is not: no PointerDown while held, no PointerUp while
\* not held.
C30_ButtonsAlternate ==
    [][LET b == Buttons(actions')
           held == dragging \/ selection_mode
       IN  \A i \in 1..Len(b) :
               b[i].op = IF (i % 2 = 1) = held
                         THEN "PointerUp" ELSE "PointerDown"]_vars


\* C31: at the end of every handler call a drag is never on while a cooldown
\* is pending: dragging implies gesture_cooldown <= the current time.
C31_NoDragInCooldown == dragging => gesture_cooldown <= clock

\* a drag entered on the very tick a click's cooldown ended
C31_Witness ==
    /\ frame.hand
    /\ frame.gesture = "FIST"
    /\ dragging
    /\ gesture_cooldown > 0
    /\ gesture_cooldown = clock


C33_FirstFrameNotHeld ==
    [][(frame'.hand /\ frame'.gesture # last_gesture)
          => /\ ~frame'.is_held
             /\ \A i \in 1..Len(actions') : actions'[i].op = "PointerUp"
             /\ dragging' => dragging
             /\ volume_mode' => volume_mode
             /\ selection_mode' => selection_mode]_vars

\* the first POINT frame after a drag: it lets the button go and does not
\* click, half a second after the streak before it began
C33_Witness ==
    /\ frame.hand
    /\ frame.gesture = "POINT"
    /\ ~frame.is_held
    /\ ~frame.skipped
    /\ actions = <<PointerUp>>
    /\ gesture_start_time = frame.t_rec
    /\ frame.t_rec >= 10


\* C34: a frame with no hand runs neither the tracker nor the handler: it
\* emits no action and leaves the tracker's last gesture and start time and
\* every field of the controller unchanged; a drag or a selection stays on.
C34_NoHandFrameChangesNothing ==
    [][~frame'.hand
          => /\ actions' = <<>>
             /\ UNCHANGED <<last_gesture, gesture_start_time, gesture_cooldown,
                            dragging, volume_mode, volume_start_y,
                            current_volume, selection_mode, selection_start,
                            last_cursor_pos>>]_vars

\* the hand left the view during a drag: the button is still held down
C34_Witness ==
    /\ ~frame.hand
    /\ frame.gesture = "FIST"
    /\ dragging
    /\ actions = <<>>


\* C35: a gap in hand detection does not reset the hold timer.  When the
\* first frame after one or more no-hand frames shows the gesture of the last
\* frame before the gap, gesture_start_time is unchanged and is_held is
\* computed from it: true exactly when the time since the start before the
\* gap is at least GESTURE_HOLD_TIME.
C35_GapKeepsHoldTimer ==
    [][(frame'.hand /\ frame'.after_gap /\ frame'.gesture = frame.gesture)
          => /\ gesture_start_time' = gesture_start_time
             /\ frame'.is_held
                   <=> (frame'.t_rec - gesture_start_time >= GESTURE_HOLD_TIME)]_vars

\* POINT, the hand out of view, POINT again: the frame after the gap is held
\* and clicks
C35_Witness ==
    /\ frame.hand
    /\ frame.after_gap
    /\ frame.gesture = "POINT"
    /\ frame.is_held
    /\ gesture_start_time < frame.t_rec
    /\ HasOp(actions, "PointerClick")


\* C36: the tracked volume is consistent with the emitted steps: in every
\* state current_volume - 50 is the number of VolumeUp minus the number of
\* VolumeDown emitted since the start.  As the count starts at 0 with the
\* volume at 50, this is the same as: every frame changes current_volume by
\* the number of VolumeUp minus the number of VolumeDown it emits.
C36_VolumeMatchesKeys ==
    [][current_volume' - current_volume
          = CountOps(actions', {"VolumeUp"}) - CountOps(actions', {"VolumeDown"})]_vars


\* C37: after the first PointerMove the recorded last_cursor_pos is never
\* the "no previous position" value (0, 0) again: every move leaves a
\* position other than (0, 0), and a position other than (0, 0) stays so.
C37_SentinelOnlyBeforeFirstMove ==
    [][(HasOp(actions', "PointerMove") \/ last_cursor_pos # <<0, 0>>)
          => last_cursor_pos' # <<0, 0>>]_vars

\* a later move toward the top left corner: it was smoothed from the
\* position before it, so it did not land on the target
C37_Witness ==
    /\ frame.hand
    /\ frame.palm = <<128, 96>>
    /\ HasOp(actions, "PointerMove")
    /\ last_cursor_pos # RawTarget(frame.palm)
    /\ last_cursor_pos # <<0, 0>>


\* C38: a text is never left in the queue with no worker running: once the
\* call of speak_async that queued it has returned, a text in the queue has
\* a worker thread that will take it.
C38_NoTextLeftWithoutWorker ==
    (caller = "idle" /\ queue # <<>>) => thread # "none"

\* C38, as progress: every text passed to speak_async is in the end spoken,
\* with the worker scheduled and no further call needed.
C38_EveryTextSpoken ==
    \A n \in 1..MaxTexts :
        (calls >= n) ~> (\E i \in 1..Len(spoken) : spoken[i] = n)

====
